---- MODULE Spec2Model ----
(***************************************************************************)
(* Model of app.py: the document-processing pipeline                       *)
(*   upload_file -> convert_docx_to_pdf -> process_document                *)
(*               -> analyze_document -> process_ocr_output                 *)
(*               -> get_openai_response                                    *)
(*                                                                         *)
(* Text (file names, paths, page text, completions) is a sequence of       *)
(* one-character strings, so that splitext, lower, secure_filename, join   *)
(* and strip are computed character by character as the library code       *)
(* computes them.  A Python call that may raise is modelled by an outcome  *)
(* record: [raised |-> FALSE, value |-> v] or [raised |-> TRUE, exc |-> e].*)
(* The external services (the OCR service, the chat-completion service,    *)
(* the document converter) are oracles: their answer to each call is an    *)
(* input chosen from a bounded set.                                        *)
(* The file system is POSIX: a path maps to an inode and its data, a        *)
(* sequence of bytes; an open handle keeps writing to its inode after the  *)
(* path was unlinked, and writes at its own offset without truncating.     *)
(***************************************************************************)
EXTENDS Integers, Sequences, FiniteSets, TLC

\* ------------------------------------------------------------------ bounds
\* Most pages the OCR service reports for one document (pipeline runs).
MaxPages == 2
\* Most text lines the OCR service reports on one page (pipeline runs).
MaxLines == 2
\* Most bytes in one upload (handler runs).
MaxUploadLen == 3

\* ------------------------------------------------------------ Python values
\* an optional value: None, or Some(v) whose value is the(x)
None == <<>>

Some(v) == <<v>>

the(x) == x[1]

Ok(v) == [raised |-> FALSE, value |-> v]

Raise(e) == [raised |-> TRUE, exc |-> e]

\* str(e) of an exception built with one message argument
str(e) == e.msg

Max(S) == CHOOSE x \in S : \A y \in S : y <= x

Min(S) == CHOOSE x \in S : \A y \in S : x <= y

\* ------------------------------------------------------------------- text
Whitespace == {" ", "\n", "\t"}

\* str.strip(): leading and trailing whitespace removed
strip(s) ==
  LET keep == {i \in 1..Len(s) : s[i] \notin Whitespace}
  IN IF keep = {} THEN <<>> ELSE SubSeq(s, Min(keep), Max(keep))

\* str.strip(chars)
strip_chars(s, chars) ==
  LET keep == {i \in 1..Len(s) : s[i] \notin chars}
  IN IF keep = {} THEN <<>> ELSE SubSeq(s, Min(keep), Max(keep))

\* sep.join(parts)
RECURSIVE join(_, _)
join(sep, parts) ==
  IF parts = <<>> THEN <<>>
  ELSE IF Len(parts) = 1 THEN parts[1]
  ELSE parts[1] \o sep \o join(sep, Tail(parts))

\* str.split(): the maximal runs of non-whitespace characters
RECURSIVE split(_, _, _)
split(s, word, acc) ==
  IF s = <<>> THEN (IF word = <<>> THEN acc ELSE Append(acc, word))
  ELSE IF Head(s) \in Whitespace
       THEN split(Tail(s), <<>>, IF word = <<>> THEN acc ELSE Append(acc, word))
       ELSE split(Tail(s), Append(word, Head(s)), acc)

LowerChar(c) ==
  CASE c = "P" -> "p" [] c = "D" -> "d" [] c = "F" -> "f"
    [] c = "O" -> "o" [] c = "C" -> "c" [] c = "X" -> "x"
    [] c = "A" -> "a" [] c = "B" -> "b" [] c = "T" -> "t"
    [] OTHER -> c

\* str.lower()
lower(s) == [i \in 1..Len(s) |-> LowerChar(s[i])]

\* str.rfind(c) as a 1-based position, 0 when c does not occur
rfind(s, c) ==
  LET at == {i \in 1..Len(s) : s[i] = c}
  IN IF at = {} THEN 0 ELSE Max(at)

\* os.path.splitext (posixpath): <<root, ext>>; the extension starts at the
\* last dot of the last path component, leading dots of it not counting
splitext(p) ==
  LET sepIndex == rfind(p, "/")
      dotIndex == rfind(p, ".")
  IN IF dotIndex > sepIndex /\ \E i \in (sepIndex + 1)..(dotIndex - 1) : p[i] # "."
     THEN <<SubSeq(p, 1, dotIndex - 1), SubSeq(p, dotIndex, Len(p))>>
     ELSE <<p, <<>>>>

\* the characters werkzeug's _filename_ascii_strip_re keeps: [A-Za-z0-9_.-]
SafeChars ==
  {"a", "b", "c", "d", "f", "o", "p", "t", "x",
   "A", "B", "C", "D", "F", "O", "P", "T", "X",
   "0", "1", "_", ".", "-"}

\* werkzeug.utils.secure_filename on ASCII input, POSIX separators
secure_filename(filename) ==
  LET noSep == [i \in 1..Len(filename) |->
                  IF filename[i] = "/" THEN " " ELSE filename[i]]
      joined == join(<<"_">>, split(noSep, <<>>, <<>>))
      ascii == SelectSeq(joined, LAMBDA c : c \in SafeChars)
  IN strip_chars(ascii, {".", "_"})

\* tempfile.gettempdir()
TempDir == <<"/", "t", "m", "p">>

\* os.path.join(a, b) for a relative b
path_join(a, b) == a \o <<"/">> \o b

\* ------------------------------------------------------------ file system
\* fs maps each existing path to [ino, data], data a sequence of bytes
exists(fs, path) == path \in DOMAIN fs

\* os.remove(path) of an existing path
remove(fs, path) == [p \in DOMAIN fs \ {path} |-> fs[p]]

\* file content right after open(path, "wb")
EmptyBytes == <<>>

\* open(path, "wb"): creates the file, or truncates the existing one in place
open_wb(fs, path, fresh) ==
  [p \in DOMAIN fs \cup {path} |->
     IF p = path
     THEN [ino |-> IF exists(fs, path) THEN fs[path].ino ELSE fresh,
           data |-> EmptyBytes]
     ELSE fs[p]]

\* the inode a handle opened on path refers to
ino_of(fs, path) == fs[path].ino

\* bytes written at offset 0 over the bytes a file holds: what lies beyond
\* the written bytes stays
overwrite(old, content) == content \o SubSeq(old, Len(content) + 1, Len(old))

\* handle.write(content) and close, the handle's first write: the bytes go to
\* offset 0 of the handle's inode (the file was truncated when the handle was
\* opened, not now, so bytes another handle wrote since then past the end of
\* content stay); the path names that inode only while it has not been
\* unlinked or replaced
write_handle(fs, path, ino, content) ==
  IF exists(fs, path) /\ fs[path].ino = ino
  THEN [fs EXCEPT ![path] = [ino |-> ino, data |-> overwrite(fs[path].data, content)]]
  ELSE fs

\* a new file at path (the converter's output), replacing what was there
create_file(fs, path, fresh, content) ==
  [p \in DOMAIN fs \cup {path} |->
     IF p = path THEN [ino |-> fresh, data |-> content] ELSE fs[p]]

\* ----------------------------------------------------------- exceptions
FileNotFoundError(path) ==
  [type |-> "FileNotFoundError", msg |-> <<"[Errno 2] No such file or directory", path>>]

IndexError == [type |-> "IndexError", msg |-> "list index out of range"]

\* ------------------------------------------------- single-key dictionaries
\* {key: value}
Dict(key, value) == key :> value

\* list(page.keys())[0]
first_key(page) == CHOOSE k \in DOMAIN page : TRUE

\* list(page.values())[0]
first_value(page) == page[first_key(page)]

\* ------------------------------------------------------ analyze_document
\* ocr is the OCR service's answer: [kind |-> "error", exc |-> e] or
\* [kind |-> "result", pages |-> <<[page_number, lines], ...>>].
\* The outcome also carries sent: the bytes submitted to the service
\* (<<>> when the service was not called).
analyze_document(fs, file_path, ocr) ==
  IF ~exists(fs, file_path)
  THEN Raise(FileNotFoundError(file_path)) @@ [sent |-> <<>>]
  ELSE LET document == fs[file_path].data
       IN IF ocr.kind = "error"
          THEN Raise(ocr.exc) @@ [sent |-> <<document>>]
          ELSE Ok([i \in 1..Len(ocr.pages) |->
                     Dict(ToString(ocr.pages[i].page_number - 1),
                          join(<<" ">>, ocr.pages[i].lines))])
               @@ [sent |-> <<document>>]

\* --------------------------------------------------- get_openai_response
\* reply is the chat-completion service's answer to this call:
\* [kind |-> "error", exc |-> e] or [kind |-> "completion", choices |-> <<text, ...>>]
get_openai_response(messages, reply) ==
  IF reply.kind = "error" THEN Raise(reply.exc)
  ELSE IF reply.choices = <<>> THEN Raise(IndexError)
  ELSE Ok(strip(reply.choices[1]))

\* ---------------------------------------------------- process_ocr_output
SystemPrompt ==
  "You are a helpful assistant that fixes errors in OCR outputs and provides correct data in the same JSON format."

UserPrefix == "Fix the errors and get correct data in same JSON format:\n"

\* the two messages built for one page
Messages(page_content) ==
  <<[role |-> "system", content |-> <<SystemPrompt>>],
    [role |-> "user", content |-> <<UserPrefix>> \o page_content]>>

\* the for loop of process_ocr_output from entry i on; llm[k] is the service's
\* answer to the k-th call; calls is the log of message lists sent so far
RECURSIVE ocr_loop(_, _, _, _, _)
ocr_loop(ocr_output, llm, i, corrected_output_parts, calls) ==
  IF i > Len(ocr_output)
  THEN Ok(corrected_output_parts) @@ [calls |-> calls]
  ELSE LET page == ocr_output[i]
           page_content == first_value(page)
           messages == Messages(page_content)
           response == get_openai_response(messages, llm[Len(calls) + 1])
       IN IF response.raised
          THEN Raise(response.exc) @@ [calls |-> Append(calls, messages)]
          ELSE ocr_loop(ocr_output, llm, i + 1,
                        Append(corrected_output_parts,
                               Dict(first_key(page), response.value)),
                        Append(calls, messages))

\* a variant of process_ocr_output that embeds the whole document's text,
\* not the page's, in every prompt
process_ocr_output_whole_text(ocr_output, llm) ==
  LET whole == join(<<" ">>, [i \in 1..Len(ocr_output) |-> first_value(ocr_output[i])])
  IN ocr_loop([i \in 1..Len(ocr_output) |-> Dict(first_key(ocr_output[i]), whole)],
              llm, 1, <<>>, <<>>)

\* a variant of the loop that stops at a failed call and keeps the pages
\* corrected so far
RECURSIVE ocr_loop_partial(_, _, _, _, _)
ocr_loop_partial(ocr_output, llm, i, corrected_output_parts, calls) ==
  IF i > Len(ocr_output)
  THEN Ok(corrected_output_parts) @@ [calls |-> calls]
  ELSE LET page == ocr_output[i]
           messages == Messages(first_value(page))
           response == get_openai_response(messages, llm[Len(calls) + 1])
       IN IF response.raised
          THEN Ok(corrected_output_parts) @@ [calls |-> Append(calls, messages)]
          ELSE ocr_loop_partial(ocr_output, llm, i + 1,
                                Append(corrected_output_parts,
                                       Dict(first_key(page), response.value)),
                                Append(calls, messages))

process_ocr_output_partial(ocr_output, llm) ==
  ocr_loop_partial(ocr_output, llm, 1, <<>>, <<>>)

process_ocr_output(ocr_output, llm) == ocr_loop(ocr_output, llm, 1, <<>>, <<>>)

\* ------------------------------------------------------ process_document
\* datetime.now(UTC).isoformat()
Now == "2024-01-01T00:00:00+00:00"

\* a variant of process_document whose except clause does not cover the
\* correction step
process_document_unguarded(fs, file_path, ocr, llm) ==
  LET extracted == analyze_document(fs, file_path, ocr)
  IN IF extracted.raised
     THEN Ok([status |-> "failed", message |-> str(extracted.exc)])
          @@ [sent |-> extracted.sent, calls |-> <<>>]
     ELSE IF extracted.value = <<>>
     THEN Ok([status |-> "failed", message |-> "No data extracted"])
          @@ [sent |-> extracted.sent, calls |-> <<>>]
     ELSE LET corrected == process_ocr_output(extracted.value, llm)
          IN IF corrected.raised
             THEN Raise(corrected.exc)
                  @@ [sent |-> extracted.sent, calls |-> corrected.calls]
             ELSE Ok([status |-> "processed",
                      json_data |-> corrected.value,
                      ocr_output |-> extracted.value,
                      processed_date |-> Now])
                  @@ [sent |-> extracted.sent, calls |-> corrected.calls]

\* a variant of process_document without the  if not extracted_data  return
process_document_no_short_circuit(fs, file_path, ocr, llm) ==
  LET extracted == analyze_document(fs, file_path, ocr)
  IN IF extracted.raised
     THEN Ok([status |-> "failed", message |-> str(extracted.exc)])
          @@ [sent |-> extracted.sent, calls |-> <<>>]
     ELSE LET corrected == process_ocr_output(extracted.value, llm)
          IN IF corrected.raised
             THEN Ok([status |-> "failed", message |-> str(corrected.exc)])
                  @@ [sent |-> extracted.sent, calls |-> corrected.calls]
             ELSE Ok([status |-> "processed",
                      json_data |-> corrected.value,
                      ocr_output |-> extracted.value,
                      processed_date |-> Now])
                  @@ [sent |-> extracted.sent, calls |-> corrected.calls]

\* The outcome carries the observable calls: sent (bytes given to the OCR
\* service) and calls (message lists given to the chat-completion service).
process_document(fs, file_path, ocr, llm) ==
  LET extracted == analyze_document(fs, file_path, ocr)
  IN IF extracted.raised
     THEN Ok([status |-> "failed", message |-> str(extracted.exc)])
          @@ [sent |-> extracted.sent, calls |-> <<>>]
     ELSE LET extracted_data == extracted.value
          IN IF extracted_data = <<>>
             THEN Ok([status |-> "failed", message |-> "No data extracted"])
                  @@ [sent |-> extracted.sent, calls |-> <<>>]
             ELSE LET corrected == process_ocr_output(extracted_data, llm)
                  IN IF corrected.raised
                     THEN Ok([status |-> "failed", message |-> str(corrected.exc)])
                          @@ [sent |-> extracted.sent, calls |-> corrected.calls]
                     ELSE Ok([status |-> "processed",
                              json_data |-> corrected.value,
                              ocr_output |-> extracted_data,
                              processed_date |-> Now])
                          @@ [sent |-> extracted.sent, calls |-> corrected.calls]

\* --------------------------------------------------- convert_docx_to_pdf
\* the bytes of the PDF the converter renders from a document's bytes
PdfOf(data) == <<"%PDF">> \o data

ConversionError == [type |-> "Exception", msg |-> "docx2pdf conversion error"]

OutputNotFound(output_path) ==
  [type |-> "Exception",
   msg |-> <<"PDF conversion failed, output file not found: ", output_path>>]

\* docx2pdf.convert(input_path, output_path); conv is what the converter does:
\* "written" (the PDF is produced), "no_output" (it returns without producing
\* a file), "error" (it raises).  Returns the outcome and the file system.
convert(fs, fresh, input_path, output_path, conv) ==
  IF conv = "error" \/ ~exists(fs, input_path)
  THEN Raise(ConversionError) @@ [fs |-> fs, wrote |-> {}]
  ELSE IF conv = "no_output"
  THEN Ok(None) @@ [fs |-> fs, wrote |-> {}]
  ELSE Ok(None) @@ [fs |-> create_file(fs, output_path, fresh, PdfOf(fs[input_path].data)),
                    wrote |-> {output_path}]

convert_docx_to_pdf(fs, fresh, input_path, output_path, conv) ==
  LET done == convert(fs, fresh, input_path, output_path, conv)
  IN IF done.raised THEN done
     ELSE IF ~exists(done.fs, output_path)
     THEN Raise(OutputNotFound(output_path)) @@ [fs |-> done.fs, wrote |-> done.wrote]
     ELSE done

\* ------------------------------------------------------------ upload_file
AllowedExtensions == {<<".", "p", "d", "f">>, <<".", "d", "o", "c">>, <<".", "d", "o", "c", "x">>}

DocxExtension == <<".", "d", "o", "c", "x">>

PdfSuffix == <<".", "p", "d", "f">>

UnsupportedDocumentType ==
  [type |-> "HTTPException", status_code |-> 400,
   detail |-> "Unsupported document type. Only PDF, DOC, and DOCX files are allowed."]

InternalServerError ==
  [type |-> "HTTPException", status_code |-> 500, detail |-> "Internal server error"]

OSError == [type |-> "OSError", msg |-> "[Errno 28] No space left on device"]

\* the handler's  except Exception as e: raise HTTPException(500, ...)
except_Exception(e) == InternalServerError

\* the response the framework sends for an HTTPException leaving the endpoint
http_exception_response(e) ==
  [status_code |-> e.status_code, body |-> [detail |-> e.detail]]

\* a variant of status_code_of that answers 200 whatever the result
status_code_always_200(processing_result) == 200

\* status_code=200 if processing_result["status"] == "processed" else 500
status_code_of(processing_result) ==
  IF processing_result.status = "processed" THEN 200 ELSE 500

JSONResponse(content, status_code) == [status_code |-> status_code, body |-> content]

\* file_extension = os.path.splitext(file.filename)[1].lower()
file_extension_of(filename) == lower(splitext(filename)[2])

\* temp_file_path = os.path.join(tempfile.gettempdir(), secure_filename(file.filename))
temp_file_path_of(filename) == path_join(TempDir, secure_filename(filename))

\* pdf_temp_file_path = os.path.splitext(temp_file_path)[0] + ".pdf"
pdf_temp_file_path_of(temp_file_path) == splitext(temp_file_path)[1] \o PdfSuffix

\* what is recorded of one request; None where the request has not got there
NewRequest ==
  [filename |-> None, file_extension |-> None, upload_path |-> None, ino |-> 0,
   created |-> {}, removed |-> {}, leftover |-> {}, overlapped |-> {},
   log |-> <<>>, conversion |-> "none", pd_path |-> None, pd_result |-> None,
   sent |-> <<>>, llm_calls |-> <<>>, response |-> None, content |-> None]

\* the request leaves the handler through the except clause
leave_by_exception(rq, fs, e) ==
  [rq EXCEPT !.response = Some(http_exception_response(except_Exception(e))),
             !.leftover = rq.created \cap DOMAIN fs]

\* upload_file up to its suspension at  await file.read()
upload_begin(rq, fs, fresh, filename) ==
  LET file_extension == file_extension_of(filename)
      r0 == [rq EXCEPT !.filename = Some(filename),
                       !.file_extension = Some(file_extension)]
  IN IF file_extension \notin AllowedExtensions
     THEN [suspended |-> FALSE, fs |-> fs,
           rq |-> leave_by_exception(r0, fs, UnsupportedDocumentType)]
     ELSE LET temp_file_path == temp_file_path_of(filename)
              fs1 == open_wb(fs, temp_file_path, fresh)
          IN [suspended |-> TRUE, fs |-> fs1,
              rq |-> [r0 EXCEPT !.upload_path = Some(temp_file_path),
                                !.ino = ino_of(fs1, temp_file_path),
                                !.created = {temp_file_path},
                                !.log = <<"open">>]]

\* upload_file from process_document(temp_file_path) to its return
upload_process(rq, fs, temp_file_path, ocr, llm) ==
  LET done == process_document(fs, temp_file_path, ocr, llm)
      r1 == [rq EXCEPT !.pd_path = Some(temp_file_path),
                       !.log = Append(rq.log, "process_document"),
                       !.sent = done.sent,
                       !.llm_calls = done.calls]
  IN IF done.raised
     THEN [fs |-> fs, rq |-> leave_by_exception(r1, fs, done.exc)]
     ELSE LET processing_result == done.value
              found == exists(fs, temp_file_path)
              fs1 == IF found THEN remove(fs, temp_file_path) ELSE fs
              \* the second os.remove names the same path: pdf_temp_file_path is
              \* temp_file_path when file_extension == ".docx"
          IN [fs |-> fs1,
              rq |-> [r1 EXCEPT !.pd_result = Some(processing_result),
                                !.removed = IF found THEN {temp_file_path} ELSE {},
                                !.leftover = rq.created \cap DOMAIN fs1,
                                !.response = Some(JSONResponse(processing_result,
                                               status_code_of(processing_result)))]]

\* upload_file from the resumption of  await file.read()  to its return;
\* wr is the number of bytes of content that reach the file: all of them
\* when the write (and the close that flushes it) succeeds, fewer when it
\* raises OSError, the bytes before the failure staying in the file
upload_resume(rq, fs, fresh, content, wr, conv, ocr, llm) ==
  IF wr < Len(content)
  THEN LET fs0 == write_handle(fs, the(rq.upload_path), rq.ino, SubSeq(content, 1, wr))
       IN [fs |-> fs0,
           rq |-> leave_by_exception([rq EXCEPT !.content = Some(content)], fs0, OSError)]
  ELSE LET temp_file_path == the(rq.upload_path)
           fs1 == write_handle(fs, temp_file_path, rq.ino, content)
           r1 == [rq EXCEPT !.content = Some(content),
                            !.log = Append(rq.log, "write")]
       IN IF the(rq.file_extension) = DocxExtension
          THEN LET pdf_temp_file_path == pdf_temp_file_path_of(temp_file_path)
                   cv == convert_docx_to_pdf(fs1, fresh, temp_file_path,
                                             pdf_temp_file_path, conv)
                   r2 == [r1 EXCEPT !.log = Append(r1.log, "convert_docx_to_pdf"),
                                    !.created = r1.created \cup cv.wrote,
                                    !.conversion = IF cv.raised THEN "failed" ELSE "done"]
               IN IF cv.raised
                  THEN [fs |-> cv.fs, rq |-> leave_by_exception(r2, cv.fs, cv.exc)]
                  ELSE upload_process(r2, cv.fs, pdf_temp_file_path, ocr, llm)
          ELSE upload_process(r1, fs1, temp_file_path, ocr, llm)

\* =================================================================== state
VARIABLES
  fs,            \* the temporary directory: path -> [ino, data]
  next_ino,      \* the next unused inode number
  pc,            \* handler runs: request -> "idle" | "reading" | "done"
  req,           \* handler runs: request -> what is recorded of it (NewRequest)
  ocr_service,   \* pipeline runs: the OCR service's answer, or None
  llm_service,   \* pipeline runs: the chat-completion service's answers, by call
  extract_out,   \* pipeline runs: outcome of analyze_document, or None
  correct_out,   \* pipeline runs: outcome of process_ocr_output, or None
  pd_out         \* pipeline runs: outcome of process_document, or None

vars == <<fs, next_ino, pc, req, ocr_service, llm_service, extract_out, correct_out, pd_out>>

handler_vars == <<pc, req>>

pipeline_vars == <<ocr_service, llm_service, extract_out, correct_out, pd_out>>

\* ------------------------------------------------- the services' answers
ServiceError == [type |-> "ServiceError", msg |-> "service request failed"]

\* the j-th text line the OCR service reports on a page
LineText(j) == <<CASE j = 1 -> "a" [] j = 2 -> "b" [] OTHER -> "c">>

\* a page the service reports: 1-based page number, n lines
ServicePage(number, n) ==
  [page_number |-> number, lines |-> [j \in 1..n |-> LineText(j)]]

\* the OCR service's possible answers for a document of at most maxPages pages
OcrAnswers(maxPages, maxLines) ==
  {[kind |-> "error", exc |-> ServiceError]}
  \cup {[kind |-> "result", pages |-> [i \in DOMAIN count |-> ServicePage(i, count[i])]] :
          count \in UNION {[1..n -> 0..maxLines] : n \in 0..maxPages}}

\* the chat-completion service's possible answers to one call
LlmReplies ==
  {[kind |-> "completion", choices |-> <<<<" ", "x", "\n">>>>],
   [kind |-> "completion", choices |-> <<<<"y">>>>],
   [kind |-> "completion", choices |-> <<>>],
   [kind |-> "error", exc |-> ServiceError]}

\* the service's answers to the first n calls
LlmAnswers(n) == [1..n -> LlmReplies]

\* ========================================================== handler runs
\* The handler has one suspension point, so two requests give every way two
\* handler executions can interleave.
Requests == {1, 2}

\* the file names clients send
Filenames ==
  {<<"a", ".", "p", "d", "f">>,
   <<"a", ".", "P", "D", "F">>,
   <<".", ".", "/", "a", ".", "p", "d", "f">>,
   <<"a", ".", "d", "o", "c", "x">>,
   <<"a", ".", "d", "o", "c">>,
   <<"a", ".", "t", "x", "t">>,
   <<".", "p", "d", "f">>}

\* the bytes request r uploads, n of them: each byte names its request
UploadBytes(r, n) == [i \in 1..n |-> ToString(r)]

\* what the services answer in handler runs
HandlerOcrAnswers == OcrAnswers(1, 1)

HandlerLlmAnswers ==
  {<<[kind |-> "completion", choices |-> <<<<" ", "x", "\n">>>>]>>,
   <<[kind |-> "error", exc |-> ServiceError]>>}

Init ==
  /\ fs = <<>>
  /\ next_ino = 1
  /\ pc = [r \in Requests |-> "idle"]
  /\ req = [r \in Requests |-> NewRequest]
  /\ ocr_service = None
  /\ llm_service = None
  /\ extract_out = None
  /\ correct_out = None
  /\ pd_out = None

\* POST /upload arrives: the handler runs to  await file.read()  or to its end
Begin(r) ==
  /\ pc[r] = "idle"
  /\ \E filename \in Filenames :
       LET overlapped == {q \in Requests : pc[q] = "reading"}
           go == upload_begin([req[r] EXCEPT !.overlapped = overlapped],
                              fs, next_ino, filename)
       IN /\ fs' = go.fs
          /\ next_ino' = next_ino + 1
          /\ pc' = [pc EXCEPT ![r] = IF go.suspended THEN "reading" ELSE "done"]
          /\ req' = [q \in Requests |->
                       IF q = r THEN go.rq
                       ELSE IF q \in overlapped
                       THEN [req[q] EXCEPT !.overlapped = @ \cup {r}]
                       ELSE req[q]]
  /\ UNCHANGED pipeline_vars

\* the read of the upload body completes: the handler runs to its end
Resume(r) ==
  /\ pc[r] = "reading"
  /\ \E n \in 1..MaxUploadLen, conv \in {"written", "no_output", "error"},
        ocr \in HandlerOcrAnswers, llm \in HandlerLlmAnswers :
     \E wr \in 0..n :
       LET go == upload_resume(req[r], fs, next_ino, UploadBytes(r, n), wr, conv, ocr, llm)
       IN /\ fs' = go.fs
          /\ next_ino' = next_ino + 1
          /\ pc' = [pc EXCEPT ![r] = "done"]
          /\ req' = [req EXCEPT ![r] = go.rq]
  /\ UNCHANGED pipeline_vars

Next == \E r \in Requests : Begin(r) \/ Resume(r)

Spec == Init /\ [][Next]_vars

\* ========================================================= pipeline runs
DocPath == path_join(TempDir, <<"a", ".", "p", "d", "f">>)

DocBytes == <<"d">>

PipelineInit ==
  /\ fs \in {<<>>, DocPath :> [ino |-> 1, data |-> DocBytes]}
  /\ next_ino = 2
  /\ pc = [r \in Requests |-> "idle"]
  /\ req = [r \in Requests |-> NewRequest]
  /\ ocr_service \in {Some(a) : a \in OcrAnswers(MaxPages, MaxLines)}
  /\ llm_service \in LlmAnswers(MaxPages)
  /\ extract_out = None
  /\ correct_out = None
  /\ pd_out = None

Extract ==
  /\ extract_out = None
  /\ extract_out' = Some(analyze_document(fs, DocPath, the(ocr_service)))
  /\ UNCHANGED <<fs, next_ino, pc, req, ocr_service, llm_service, correct_out, pd_out>>

Correct ==
  /\ extract_out # None
  /\ ~the(extract_out).raised
  /\ correct_out = None
  /\ correct_out' = Some(process_ocr_output(the(extract_out).value, llm_service))
  /\ UNCHANGED <<fs, next_ino, pc, req, ocr_service, llm_service, extract_out, pd_out>>

Process ==
  /\ pd_out = None
  /\ pd_out' = Some(process_document(fs, DocPath, the(ocr_service), llm_service))
  /\ UNCHANGED <<fs, next_ino, pc, req, ocr_service, llm_service, extract_out, correct_out>>

PipelineNext == Extract \/ Correct \/ Process

PipelineSpec == PipelineInit /\ [][PipelineNext]_vars

\* ================================================= claims: handler runs
Done(r) == pc[r] = "done"

WordProcessorExtensions == {<<".", "d", "o", "c">>, <<".", "d", "o", "c", "x">>}

\* position of the first occurrence of event e in log, 0 when it is absent
EventAt(log, e) ==
  LET at == {i \in 1..Len(log) : log[i] = e}
  IN IF at = {} THEN 0 ELSE Min(at)

\* C1: every request that wrote a temporary file has, when upload_file
\* returns or raises, left none of the files it created on disk.
C1_CleanupOnEveryExit ==
  \A r \in Requests :
    (Done(r) /\ req[r].created # {}) => req[r].leftover = {}

\* C2: an upload whose lower-cased extension is not .pdf, .doc or .docx is
\* answered 400 "Unsupported document type...", writes no temporary file and
\* calls neither the converter, the OCR service nor the language model.
C2_UnsupportedExtensionIs400 ==
  \A r \in Requests :
    (Done(r) /\ the(req[r].file_extension) \notin AllowedExtensions) =>
      /\ the(req[r].response).status_code = 400
      /\ the(req[r].response).body = [detail |-> UnsupportedDocumentType.detail]
      /\ req[r].created = {}
      /\ req[r].log = <<>>
      /\ req[r].sent = <<>>
      /\ req[r].llm_calls = <<>>

\* the bytes request r may hand to the OCR service: its upload, or the PDF
\* converted from its upload
OwnBytes(r) == {the(req[r].content), PdfOf(the(req[r].content))}

\* C3: two requests whose handler executions interleave write distinct
\* temporary paths, neither deletes a file the other created, and each has
\* its own uploaded bytes analysed.
C3_ConcurrentRequestsIsolated ==
  \A r1, r2 \in Requests :
    (r1 # r2 /\ r2 \in req[r1].overlapped) =>
      /\ req[r1].created \cap req[r2].created = {}
      /\ req[r1].removed \cap req[r2].created = {}
      /\ \A i \in 1..Len(req[r1].sent) : req[r1].sent[i] \in OwnBytes(r1)

\* C8: for a .doc or .docx upload convert_docx_to_pdf is invoked before
\* process_document, which is given the converted PDF's path and never the
\* upload's; for a .pdf upload the converter is not invoked and
\* process_document is given the upload's path.
C8_NormalizeBeforeExtract ==
  \A r \in Requests :
    req[r].pd_path # None =>
      LET convertAt == EventAt(req[r].log, "convert_docx_to_pdf")
          processAt == EventAt(req[r].log, "process_document")
          upload == the(req[r].upload_path)
      IN IF the(req[r].file_extension) \in WordProcessorExtensions
         THEN /\ 0 < convertAt
              /\ convertAt < processAt
              /\ the(req[r].pd_path) = pdf_temp_file_path_of(upload)
              /\ the(req[r].pd_path) # upload
         ELSE /\ convertAt = 0
              /\ the(req[r].pd_path) = upload

\* C9: when the conversion of a word-processor upload fails (no output file,
\* or the converter raises), the response is 500 with body
\* {status: failed, message: ...} and the OCR service is not called.
C9_ConversionFailureIsFailedResult ==
  \A r \in Requests :
    (Done(r) /\ req[r].conversion = "failed") =>
      /\ the(req[r].response).status_code = 500
      /\ DOMAIN the(req[r].response).body = {"status", "message"}
      /\ the(req[r].response).body.status = "failed"
      /\ req[r].sent = <<>>

\* C10: whenever process_document returned, the response body is the returned
\* result and the status is 200 exactly when the result's status is processed,
\* 500 when it is failed; no 200 response carries a failed body.
C10_StatusCodeMapping ==
  \A r \in Requests :
    /\ req[r].pd_result # None =>
         /\ req[r].response # None
         /\ the(req[r].response).body = the(req[r].pd_result)
         /\ the(req[r].response).status_code = 200
              <=> the(req[r].pd_result).status = "processed"
         /\ the(req[r].pd_result).status = "failed"
              => the(req[r].response).status_code = 500
    /\ (req[r].response # None /\ the(req[r].response).status_code = 200) =>
         /\ "status" \in DOMAIN the(req[r].response).body
         /\ the(req[r].response).body.status # "failed"

\* one request answered 200 with a processed result, another 500 with a
\* failed result
C10_Witness ==
  \E r1, r2 \in Requests :
    /\ Done(r1) /\ req[r1].pd_result # None
    /\ the(req[r1].pd_result).status = "processed"
    /\ the(req[r1].response).status_code = 200
    /\ Done(r2) /\ req[r2].pd_result # None
    /\ the(req[r2].pd_result).status = "failed"
    /\ the(req[r2].response).status_code = 500

\* ================================================ claims: pipeline runs
ProcessedFields == {"status", "json_data", "ocr_output", "processed_date"}

FailedFields == {"status", "message"}

FailedResult(message) == [status |-> "failed", message |-> message]

\* C4: process_document never raises; when extraction or correction raised,
\* it returns {status: failed, message: str(exception)}.
C4_ProcessDocumentNeverRaises ==
  pd_out # None =>
    /\ ~the(pd_out).raised
    /\ (extract_out # None /\ the(extract_out).raised) =>
         the(pd_out).value = FailedResult(str(the(extract_out).exc))
    /\ (correct_out # None /\ the(correct_out).raised) =>
         the(pd_out).value = FailedResult(str(the(correct_out).exc))

\* the OCR service failed, and process_document answered with its message
C4_Witness ==
  /\ pd_out # None
  /\ extract_out # None
  /\ the(extract_out).raised
  /\ the(extract_out).exc = ServiceError
  /\ the(pd_out).value = FailedResult(str(ServiceError))

\* C5: when the extractor returns no page, process_document returns
\* {status: failed, message: "No data extracted"} and the corrector (and the
\* language model) is not invoked.
C5_EmptyExtractionShortCircuit ==
  (pd_out # None /\ extract_out # None /\ ~the(extract_out).raised
     /\ the(extract_out).value = <<>>) =>
    /\ ~the(pd_out).raised
    /\ the(pd_out).value = FailedResult("No data extracted")
    /\ the(pd_out).calls = <<>>

C5_Witness ==
  /\ pd_out # None
  /\ extract_out # None
  /\ ~the(extract_out).raised
  /\ the(extract_out).value = <<>>
  /\ the(pd_out).value.status = "failed"

\* the service's answer to the k-th call is a usable completion
ReplySucceeds(k) ==
  llm_service[k].kind = "completion" /\ llm_service[k].choices # <<>>

\* C6: when every language-model call succeeds, process_ocr_output returns
\* one entry per input entry, the i-th under the i-th input entry's key, its
\* value the model's (stripped) answer to the prompt built from that page's
\* text alone.
C6_OneCorrectionPerPage ==
  (correct_out # None /\ \A k \in 1..Len(the(extract_out).value) : ReplySucceeds(k)) =>
    LET input == the(extract_out).value
        out == the(correct_out)
    IN /\ ~out.raised
       /\ Len(out.value) = Len(input)
       /\ Len(out.calls) = Len(input)
       /\ \A i \in 1..Len(input) :
            /\ DOMAIN out.value[i] = DOMAIN input[i]
            /\ out.calls[i][2].content = <<UserPrefix>> \o first_value(input[i])
            /\ first_value(out.value[i]) = strip(llm_service[i].choices[1])

\* two pages of different text, two different answers, both corrected
C6_Witness ==
  /\ correct_out # None
  /\ ~the(correct_out).raised
  /\ Len(the(correct_out).value) = 2
  /\ first_value(the(extract_out).value[1]) # first_value(the(extract_out).value[2])
  /\ first_value(the(correct_out).value[1]) # first_value(the(correct_out).value[2])

\* the exception the k-th call raises, the service's answer being unusable
ReplyException(k) ==
  IF llm_service[k].kind = "error" THEN llm_service[k].exc ELSE IndexError

\* C7: a result of process_document is either {status: processed, json_data,
\* ocr_output, processed_date} or {status: failed, message}; when the
\* language-model call fails on page k the result is failed with that
\* failure's message and has no json_data.
C7_NoPartialSuccess ==
  pd_out # None =>
    /\ ~the(pd_out).raised
    /\ LET result == the(pd_out).value
           pages == IF exists(fs, DocPath) /\ the(ocr_service).kind = "result"
                    THEN Len(the(ocr_service).pages) ELSE 0
           failing == {k \in 1..pages : ~ReplySucceeds(k)}
       IN /\ \/ result.status = "processed" /\ DOMAIN result = ProcessedFields
             \/ result.status = "failed" /\ DOMAIN result = FailedFields
          /\ failing # {} =>
               /\ result.status = "failed"
               /\ result.message = str(ReplyException(Min(failing)))
               /\ "json_data" \notin DOMAIN result

\* page 0 was corrected, the call for page 1 failed, the result is failed
C7_Witness ==
  /\ pd_out # None
  /\ exists(fs, DocPath)
  /\ the(ocr_service).kind = "result"
  /\ Len(the(ocr_service).pages) = 2
  /\ ReplySucceeds(1)
  /\ ~ReplySucceeds(2)
  /\ Len(the(pd_out).calls) = 2
  /\ the(pd_out).value.status = "failed"

====
